---- MODULE Spec2Model ----
(***************************************************************************)
(* excevt: the exception-trace / local-timestamp resolver of itm-tools     *)
(* (src/bin/excevt.rs, fn run).  The main loop pulls decoded packets from  *)
(* an itm::Stream, looks ahead one or two packets after an exception       *)
(* trace, maintains the `now` counter with its two sentinel values and     *)
(* prints one report line per exception trace.                             *)
(*                                                                         *)
(* u32 values do not fit TLC's integers, so a u32 is written <<q, r>>,     *)
(* standing for q * 1_000_000_000 + r with 0 <= r < 1_000_000_000.         *)
(***************************************************************************)
EXTENDS Integers, Sequences, FiniteSets, TLC

\* ------------------------------------------------------------------ bounds

\* The packet source delivers at most MaxPulls items before end-of-stream.
MaxPulls == 7

\* ------------------------------------------------------- program constants

\* const MAX: u32 = 1_000_000_000
MAX == 1000000000

\* u32::MAX = 4 * MAX + U32MaxLow
U32MaxLow == 294967295

\* the wrap-around signature delta and the jump it causes (lines 226, 229)
WrapDelta == 1999999
WrapJump == 2000000

\* ------------------------------------------------------------ u32 numbers

U32Val(q, r) == <<q, r>>

U32MAX == U32Val(4, U32MaxLow)

\* const INSTANT_DISABLED: u32 = u32::MAX
INSTANT_DISABLED == U32Val(4, U32MaxLow)

\* const INSTANT_UNKNOWN: u32 = u32::MAX - 1
INSTANT_UNKNOWN == U32Val(4, U32MaxLow - 1)

\* the mathematical sum of two u32 values (not yet reduced to 32 bits)
WideSum(a, b) ==
    LET r == a[2] + b[2]
    IN  <<a[1] + b[1] + (r \div MAX), r % MAX>>

\* does a mathematical value fit a u32?
FitsU32(v) == v[1] < 4 \/ (v[1] = 4 /\ v[2] <= U32MaxLow)

\* v - 2^32, for 2^32 <= v < 2^33
Minus2Pow32(v) ==
    IF v[2] >= U32MaxLow + 1
    THEN <<v[1] - 4, v[2] - (U32MaxLow + 1)>>
    ELSE <<v[1] - 5, v[2] + MAX - (U32MaxLow + 1)>>

\* `a + b` on u32: the sum when it fits; otherwise the build decides: a panic
\* (overflow checks on, the debug profile) or the sum modulo 2^32 (release).
AddU32(a, b) ==
    LET s == WideSum(a, b)
    IN  IF FitsU32(s)
        THEN {[panic |-> FALSE, v |-> s]}
        ELSE {[panic |-> TRUE, v |-> a], [panic |-> FALSE, v |-> Minus2Pow32(s)]}

\* `v % MAX`
RemMAX(v) == <<0, v[2]>>

\* ---------------------------------------------------------------- packets

Overflow == [kind |-> "Overflow"]
ExceptionTrace(n) == [kind |-> "ExceptionTrace", id |-> n]
LocalTimestamp(d, p) == [kind |-> "LocalTimestamp", delta |-> d, precise |-> p]
\* any other decoded packet kind (Instrumentation, PeriodicPcSample, ...)
Instrumentation == [kind |-> "Instrumentation"]

\* the deltas a LocalTimestamp packet carries in this model (delta() is a
\* u32): zero, the wrap-around signature, MAX - 1 and the largest u32
Deltas == {U32Val(0, 0), U32Val(0, WrapDelta), U32Val(0, MAX - 1), U32MAX}

\* what one call of stream.next() can return
StreamOk(p) == [res |-> "Ok", p |-> p]
StreamErr == [res |-> "Err"]
StreamEnd == [res |-> "None"]

\* --------------------------------------------------------------- reports

\* enum Instant { Unknown, Reset, Known { now, precise } }
Unknown == [tag |-> "Unknown"]
Reset == [tag |-> "Reset"]
Known(n, p) == [tag |-> "Known", now |-> n, precise |-> p]

\* one call of report(): the line printed for exception trace e
Report(e, instant) == [id |-> e, instant |-> instant]

\* ------------------------------------------------------------------ state

VARIABLES
    timestamp,  \* matches.is_present("timestamp"), the -t flag
    now,        \* let mut now: u32
    next,       \* let mut next: Option<Packet>, <<>> is None and <<p>> is Some(p)
    pc,         \* where the run is: "main", "p2", "p3" (before the top-level,
                \* second and third stream.next()), "eof", "fatal", "panic"
    et,         \* the exception trace bound at line 110 (0: none)
    et2,        \* the exception trace bound at line 132 (0: none)
    out,        \* the report lines written to stdout, in order
    pulled,     \* history: how many items stream.next() has returned
    traces,     \* history: how many of them were exception traces
    lost,       \* history: now was assigned INSTANT_UNKNOWN and no Reset line
                \* was printed since
    anyLoss,    \* history: a decode error, an Overflow packet, a requeued
                \* lookahead packet or the `else` of line 230 has happened
    anyStandalone, \* history: a LocalTimestamp was handled at top level
    last,       \* history: the step just taken and the state it started from
    display,    \* excevt.rs: the ExceptionNumber being formatted and the result
    pcsampl,    \* pcsampl.rs: the locals of run()
    portdemux   \* port-demux.rs: the locals of run() and the files it wrote

excevtVars == <<timestamp, now, next, pc, et, et2, out, pulled, traces,
                lost, anyLoss, anyStandalone, last>>

vars == <<excevtVars, display, pcsampl, portdemux>>

\* exception traces are numbered in the order the source delivers them; the
\* loop never looks inside one, it only hands it to report()
SourcePackets ==
    {Overflow, ExceptionTrace(traces + 1), Instrumentation}
        \cup {LocalTimestamp(d, p) : d \in Deltas, p \in BOOLEAN}

\* what the next stream.next() may return: anything while the stream has
\* items left, end-of-stream once MaxPulls items were delivered
SourceItems ==
    IF pulled < MaxPulls
    THEN {StreamErr, StreamEnd} \cup {StreamOk(p) : p \in SourcePackets}
    ELSE {StreamEnd}

\* the record kept in `last`: the step, the item it handled, and the values of
\* now, next and the length of out when it started
Step(op, item) ==
    [op |-> op, item |-> item, now |-> now, nout |-> Len(out), next |-> next]

ExcevtInit ==
    /\ timestamp \in BOOLEAN
    /\ now = IF timestamp THEN INSTANT_UNKNOWN ELSE INSTANT_DISABLED
    /\ next = <<>>
    /\ pc = "main"
    /\ et = 0
    /\ et2 = 0
    /\ out = <<>>
    /\ pulled = 0
    /\ traces = 0
    /\ lost = FALSE
    /\ anyLoss = FALSE
    /\ anyStandalone = FALSE
    /\ last = [op |-> "init", item |-> StreamEnd, now |-> now, nout |-> 0, next |-> <<>>]

\* an excevt run: nothing is being formatted apart from the report lines of
\* out, and the other two tools are not running
Init ==
    /\ ExcevtInit
    /\ display = [state |-> "idle"]
    /\ pcsampl = [phase |-> "idle"]
    /\ portdemux = [phase |-> "idle"]

\* ------------------------------------------------- the tracker's updates

\* DecodeErrorNow with a fault: the decode error is logged and now is kept
DecodeErrorNowKept(n) == n

\* lines 85-93: a decode error at top level
DecodeErrorNow(n) == IF n # INSTANT_DISABLED THEN INSTANT_UNKNOWN ELSE n

\* lines 102-108: Packet::Overflow
OverflowNow(n) == IF n # INSTANT_DISABLED THEN INSTANT_UNKNOWN ELSE n

\* line 226: the condition under which a standalone timestamp is taken for
\* the counter wrapping around at the 2 million count
WrapSignature(n, lt) == n # INSTANT_DISABLED /\ lt.delta = U32Val(0, WrapDelta)

\* lines 221-235: Packet::LocalTimestamp at top level
StandaloneNow(n, lt) ==
    IF n = INSTANT_DISABLED
    THEN {[panic |-> FALSE, v |-> INSTANT_UNKNOWN]}
    ELSE IF WrapSignature(n, lt)
         THEN AddU32(n, U32Val(0, WrapJump))
         ELSE {[panic |-> FALSE, v |-> INSTANT_UNKNOWN]}

\* SingleTrace with a fault: no test for INSTANT_UNKNOWN, as in the two-trace arm
SingleTraceNoReset(n, e, lt) ==
    {IF s.panic
     THEN [panic |-> TRUE, v |-> n, lines |-> <<>>]
     ELSE [panic |-> FALSE, v |-> RemMAX(s.v),
           lines |-> <<Report(e, Known(RemMAX(s.v), lt.precise))>>]
     : s \in AddU32(n, lt.delta)}

\* lines 115-129: an exception trace followed by a local timestamp
SingleTrace(n, e, lt) ==
    IF n = INSTANT_UNKNOWN
    THEN {[panic |-> FALSE, v |-> U32Val(0, 0), lines |-> <<Report(e, Reset)>>]}
    ELSE {IF s.panic
          THEN [panic |-> TRUE, v |-> n, lines |-> <<>>]
          ELSE [panic |-> FALSE, v |-> RemMAX(s.v),
                lines |-> <<Report(e, Known(RemMAX(s.v), lt.precise))>>]
          : s \in AddU32(n, lt.delta)}

\* lines 134-152: two exception traces followed by a local timestamp
\* DoubleTrace with a fault: the sum is not reduced modulo MAX
DoubleTraceNoRem(n, e, e2, lt) ==
    {IF s.panic
     THEN [panic |-> TRUE, v |-> n, lines |-> <<>>]
     ELSE [panic |-> FALSE, v |-> s.v,
           lines |-> <<Report(e, Known(s.v, FALSE)),
                       Report(e2, Known(s.v, lt.precise))>>]
     : s \in AddU32(n, lt.delta)}

DoubleTrace(n, e, e2, lt) ==
    {IF s.panic
     THEN [panic |-> TRUE, v |-> n, lines |-> <<>>]
     ELSE [panic |-> FALSE, v |-> RemMAX(s.v),
           lines |-> <<Report(e, Known(RemMAX(s.v), FALSE)),
                       Report(e2, Known(RemMAX(s.v), lt.precise))>>]
     : s \in AddU32(n, lt.delta)}

\* lines 183 and 218: "computed instant is now unknown"
UnresolvedNow(n) == INSTANT_UNKNOWN

\* lines 214-215: the trace is reported with unknown timestamp
UnresolvedOne(e) == <<Report(e, Unknown)>>

\* UnresolvedTwo with a fault: the two report() calls in the other order
UnresolvedTwoSwapped(e, e2) == <<Report(e2, Unknown), Report(e, Unknown)>>

\* lines 178-180: both traces are reported with unknown timestamp
UnresolvedTwo(e, e2) == <<Report(e, Unknown), Report(e2, Unknown)>>

\* lines 203-208: end of stream after one trace: flush
EofFlushOne(e) == <<Report(e, Unknown)>>

\* EofFlushTwo with a fault: only the second trace is flushed
EofFlushTwoDropsFirst(e, e2) == <<Report(e2, Unknown)>>

\* lines 169-175: end of stream after two traces
EofFlushTwo(e, e2) == <<Report(e, Unknown), Report(e2, Unknown)>>

\* lines 266-273, "{:09}": the number of characters of the now field, a u32
\* zero-padded to at least nine digits; a u32 has at most ten
NowFieldWidth(n) == IF n[1] = 0 THEN 9 ELSE 10

\* ----------------------------------------------------------- the main loop

\* one stream.next() that returned item
Pull(item) ==
    /\ pulled' = pulled + 1
    /\ traces' = IF item.res = "Ok" /\ item.p.kind = "ExceptionTrace"
                 THEN traces + 1 ELSE traces

\* lines 78-99: the packet the iteration works on is the requeued one if
\* there is one, else the next packet the source decodes
\* AtTop with a fault: `next` instead of `next.take()`, the slot keeps its
\* packet
AtTopPeek(p) ==
    /\ pc = "main"
    /\ IF next # <<>>
       THEN p = next[1] /\ pulled' = pulled /\ traces' = traces
       ELSE StreamOk(p) \in SourceItems /\ Pull(StreamOk(p))
    /\ next' = next

AtTop(p) ==
    /\ pc = "main"
    /\ IF next # <<>>
       THEN p = next[1] /\ pulled' = pulled /\ traces' = traces
       ELSE StreamOk(p) \in SourceItems /\ Pull(StreamOk(p))
    /\ next' = <<>>

TopCandidates == IF next # <<>> THEN {next[1]} ELSE SourcePackets

\* lines 85-93: decode error in the inner loop; the loop pulls again
TopDecodeError ==
    /\ pc = "main" /\ next = <<>>
    /\ StreamErr \in SourceItems
    /\ Pull(StreamErr)
    /\ now' = DecodeErrorNow(now)
    /\ lost' = (lost \/ now # INSTANT_DISABLED)
    /\ anyLoss' = TRUE
    /\ last' = Step("top_err", StreamErr)
    /\ UNCHANGED <<display, pcsampl, portdemux, timestamp, next, pc, et, et2, out, anyStandalone>>

\* line 96: end of stream at top level
TopEndOfStream ==
    /\ pc = "main" /\ next = <<>>
    /\ Pull(StreamEnd)
    /\ pc' = "eof"
    /\ last' = Step("top_eof", StreamEnd)
    /\ UNCHANGED <<display, pcsampl, portdemux, timestamp, now, next, et, et2, out,
                   lost, anyLoss, anyStandalone>>

\* lines 102-108
TopOverflow ==
    \E p \in TopCandidates :
        /\ AtTop(p)
        /\ p.kind = "Overflow"
        /\ now' = OverflowNow(now)
        /\ lost' = (lost \/ now # INSTANT_DISABLED)
        /\ anyLoss' = TRUE
        /\ last' = Step("overflow", StreamOk(p))
        /\ UNCHANGED <<display, pcsampl, portdemux, timestamp, pc, et, et2, out, anyStandalone>>

\* lines 110-114: an exception trace while timestamps are expected: look ahead
TopTrace ==
    \E p \in TopCandidates :
        /\ AtTop(p)
        /\ p.kind = "ExceptionTrace"
        /\ now # INSTANT_DISABLED
        /\ et' = p.id
        /\ pc' = "p2"
        /\ last' = Step("trace", StreamOk(p))
        /\ UNCHANGED <<display, pcsampl, portdemux, timestamp, now, et2, out,
                   lost, anyLoss, anyStandalone>>

\* lines 110-112, 210-218: an exception trace while now is INSTANT_DISABLED
TopTraceDisabled ==
    \E p \in TopCandidates :
        /\ AtTop(p)
        /\ p.kind = "ExceptionTrace"
        /\ now = INSTANT_DISABLED
        /\ out' = out \o UnresolvedOne(p.id)
        /\ now' = UnresolvedNow(now)
        /\ lost' = TRUE
        /\ last' = Step("trace_disabled", StreamOk(p))
        /\ UNCHANGED <<display, pcsampl, portdemux, timestamp, pc, et, et2, anyLoss, anyStandalone>>

\* lines 221-235
TopTimestamp ==
    \E p \in TopCandidates :
        /\ AtTop(p)
        /\ p.kind = "LocalTimestamp"
        /\ \E s \in StandaloneNow(now, p) :
               /\ now' = s.v
               /\ pc' = IF s.panic THEN "panic" ELSE "main"
        /\ lost' = (lost \/ ~WrapSignature(now, p))
        /\ anyLoss' = (anyLoss \/ (now # INSTANT_DISABLED /\ ~WrapSignature(now, p)))
        /\ anyStandalone' = TRUE
        /\ last' = Step("timestamp", StreamOk(p))
        /\ UNCHANGED <<display, pcsampl, portdemux, timestamp, et, et2, out>>

\* TopUnexpected with a fault: the packet is logged and the loop goes on
TopUnexpectedContinues ==
    \E p \in TopCandidates :
        /\ AtTop(p)
        /\ p.kind \notin {"Overflow", "ExceptionTrace", "LocalTimestamp"}
        /\ last' = Step("unexpected", StreamOk(p))
        /\ UNCHANGED <<display, pcsampl, portdemux, timestamp, now, pc, et, et2, out,
                       lost, anyLoss, anyStandalone>>

\* lines 237-241: any other packet ends the run
TopUnexpected ==
    \E p \in TopCandidates :
        /\ AtTop(p)
        /\ p.kind \notin {"Overflow", "ExceptionTrace", "LocalTimestamp"}
        /\ pc' = "fatal"
        /\ last' = Step("unexpected", StreamOk(p))
        /\ UNCHANGED <<display, pcsampl, portdemux, timestamp, now, et, et2, out,
                   lost, anyLoss, anyStandalone>>

\* ------------------------------------------------------------- lookahead

\* line 114: the second stream.next() of the iteration
AtP2(item) ==
    /\ pc = "p2"
    /\ item \in SourceItems
    /\ Pull(item)

\* line 133: the third stream.next() of the iteration
AtP3(item) ==
    /\ pc = "p3"
    /\ item \in SourceItems
    /\ Pull(item)

\* lines 115-129
P2Timestamp ==
    \E p \in SourcePackets :
        /\ AtP2(StreamOk(p))
        /\ p.kind = "LocalTimestamp"
        /\ \E s \in SingleTrace(now, et, p) :
               /\ now' = s.v
               /\ out' = out \o s.lines
               /\ pc' = IF s.panic THEN "panic" ELSE "main"
        /\ et' = 0
        /\ lost' = (lost /\ now # INSTANT_UNKNOWN)
        /\ last' = Step("p2_timestamp", StreamOk(p))
        /\ UNCHANGED <<display, pcsampl, portdemux, timestamp, next, et2, anyLoss, anyStandalone>>

\* lines 132-133: a second exception trace: look one packet further
P2Trace ==
    \E p \in SourcePackets :
        /\ AtP2(StreamOk(p))
        /\ p.kind = "ExceptionTrace"
        /\ et2' = p.id
        /\ pc' = "p3"
        /\ last' = Step("p2_trace", StreamOk(p))
        /\ UNCHANGED <<display, pcsampl, portdemux, timestamp, now, next, et, out,
                   lost, anyLoss, anyStandalone>>

\* lines 189-193, 214-218: any other packet is requeued
P2Unexpected ==
    \E p \in SourcePackets :
        /\ AtP2(StreamOk(p))
        /\ p.kind \notin {"LocalTimestamp", "ExceptionTrace"}
        /\ next' = <<p>>
        /\ out' = out \o UnresolvedOne(et)
        /\ now' = UnresolvedNow(now)
        /\ pc' = "main"
        /\ et' = 0
        /\ lost' = TRUE
        /\ anyLoss' = TRUE
        /\ last' = Step("p2_unexpected", StreamOk(p))
        /\ UNCHANGED <<display, pcsampl, portdemux, timestamp, et2, anyStandalone>>

\* lines 196-200, 214-218
P2DecodeError ==
    /\ AtP2(StreamErr)
    /\ out' = out \o UnresolvedOne(et)
    /\ now' = UnresolvedNow(now)
    /\ pc' = "main"
    /\ et' = 0
    /\ lost' = TRUE
    /\ anyLoss' = TRUE
    /\ last' = Step("p2_err", StreamErr)
    /\ UNCHANGED <<display, pcsampl, portdemux, timestamp, next, et2, anyStandalone>>

\* lines 203-208
P2EndOfStream ==
    /\ AtP2(StreamEnd)
    /\ out' = out \o EofFlushOne(et)
    /\ pc' = "eof"
    /\ et' = 0
    /\ last' = Step("p2_eof", StreamEnd)
    /\ UNCHANGED <<display, pcsampl, portdemux, timestamp, now, next, et2,
                   lost, anyLoss, anyStandalone>>

\* lines 134-152
P3Timestamp ==
    \E p \in SourcePackets :
        /\ AtP3(StreamOk(p))
        /\ p.kind = "LocalTimestamp"
        /\ \E s \in DoubleTrace(now, et, et2, p) :
               /\ now' = s.v
               /\ out' = out \o s.lines
               /\ pc' = IF s.panic THEN "panic" ELSE "main"
        /\ et' = 0
        /\ et2' = 0
        /\ last' = Step("p3_timestamp", StreamOk(p))
        /\ UNCHANGED <<display, pcsampl, portdemux, timestamp, next,
                   lost, anyLoss, anyStandalone>>

\* lines 155-159, 178-185: any other packet (a third trace too) is requeued
\* P3Unexpected with a fault: the packet is not requeued
P3UnexpectedDrops ==
    \E p \in SourcePackets :
        /\ AtP3(StreamOk(p))
        /\ p.kind # "LocalTimestamp"
        /\ next' = <<>>
        /\ out' = out \o UnresolvedTwo(et, et2)
        /\ now' = UnresolvedNow(now)
        /\ pc' = "main"
        /\ et' = 0
        /\ et2' = 0
        /\ lost' = TRUE
        /\ anyLoss' = TRUE
        /\ last' = Step("p3_unexpected", StreamOk(p))
        /\ UNCHANGED <<display, pcsampl, portdemux, timestamp, anyStandalone>>

P3Unexpected ==
    \E p \in SourcePackets :
        /\ AtP3(StreamOk(p))
        /\ p.kind # "LocalTimestamp"
        /\ next' = <<p>>
        /\ out' = out \o UnresolvedTwo(et, et2)
        /\ now' = UnresolvedNow(now)
        /\ pc' = "main"
        /\ et' = 0
        /\ et2' = 0
        /\ lost' = TRUE
        /\ anyLoss' = TRUE
        /\ last' = Step("p3_unexpected", StreamOk(p))
        /\ UNCHANGED <<display, pcsampl, portdemux, timestamp, anyStandalone>>

\* lines 162-166, 178-185
P3DecodeError ==
    /\ AtP3(StreamErr)
    /\ out' = out \o UnresolvedTwo(et, et2)
    /\ now' = UnresolvedNow(now)
    /\ pc' = "main"
    /\ et' = 0
    /\ et2' = 0
    /\ lost' = TRUE
    /\ anyLoss' = TRUE
    /\ last' = Step("p3_err", StreamErr)
    /\ UNCHANGED <<display, pcsampl, portdemux, timestamp, next, anyStandalone>>

\* lines 169-175
P3EndOfStream ==
    /\ AtP3(StreamEnd)
    /\ out' = out \o EofFlushTwo(et, et2)
    /\ pc' = "eof"
    /\ et' = 0
    /\ et2' = 0
    /\ last' = Step("p3_eof", StreamEnd)
    /\ UNCHANGED <<display, pcsampl, portdemux, timestamp, now, next,
                   lost, anyLoss, anyStandalone>>

Next ==
    \/ TopDecodeError
    \/ TopEndOfStream
    \/ TopOverflow
    \/ TopTrace
    \/ TopTraceDisabled
    \/ TopTimestamp
    \/ TopUnexpected
    \/ P2Timestamp
    \/ P2Trace
    \/ P2Unexpected
    \/ P2DecodeError
    \/ P2EndOfStream
    \/ P3Timestamp
    \/ P3Unexpected
    \/ P3DecodeError
    \/ P3EndOfStream

Spec == Init /\ [][Next]_vars

\* ------------------------------------------- a long run of wrap-arounds

\* The timestamp counter wraps every 2 million ticks, so a stretch without
\* exception traces is a run of standalone LocalTimestamp(1_999_999)
\* packets.  JumpSpec follows such runs, MaxJumps packets long, from states
\* the resolver reaches on
\*     -t: ExceptionTrace, LocalTimestamp(0), ExceptionTrace, LocalTimestamp(d)
\* for the deltas d of JumpStarts: a Reset line, then a Known line with now = d.
MaxJumps == 2200

JumpStarts == {U32Val(0, 0), U32Val(0, 967294), U32Val(0, 967295)}

JumpInit ==
    /\ timestamp = TRUE
    /\ now \in JumpStarts
    /\ next = <<>>
    /\ pc = "main"
    /\ et = 0
    /\ et2 = 0
    /\ out = <<Report(1, Reset), Report(2, Known(now, TRUE))>>
    /\ pulled = 4
    /\ traces = 2
    /\ lost = FALSE
    /\ anyLoss = FALSE
    /\ anyStandalone = FALSE
    /\ last = [op |-> "p2_timestamp",
               item |-> StreamOk(LocalTimestamp(now, TRUE)),
               now |-> U32Val(0, 0), nout |-> 1, next |-> <<>>]
    /\ display = [state |-> "idle"]
    /\ pcsampl = [phase |-> "idle"]
    /\ portdemux = [phase |-> "idle"]

\* lines 78-83, 221-235: the loop pulls a LocalTimestamp whose delta is
\* 1_999_999 and handles it at top level
WrapTimestamp ==
    \E p \in {LocalTimestamp(U32Val(0, WrapDelta), b) : b \in BOOLEAN} :
        /\ pc = "main"
        /\ next = <<>>
        /\ pulled < 4 + MaxJumps
        /\ Pull(StreamOk(p))
        /\ \E s \in StandaloneNow(now, p) :
               /\ now' = s.v
               /\ pc' = IF s.panic THEN "panic" ELSE "main"
        /\ lost' = (lost \/ ~WrapSignature(now, p))
        /\ anyLoss' = (anyLoss \/ (now # INSTANT_DISABLED /\ ~WrapSignature(now, p)))
        /\ anyStandalone' = TRUE
        /\ last' = Step("timestamp", StreamOk(p))
        /\ UNCHANGED <<display, pcsampl, portdemux, timestamp, next, et, et2, out>>

JumpNext == WrapTimestamp

JumpSpec == JumpInit /\ [][JumpNext]_vars

\* ------------------------------------------- formatting an exception number

U16MAX == 65535

\* u16 subtraction: panics with overflow checks, wraps modulo 2^16 without
SubU16(a, b) ==
    IF a >= b
    THEN {[panic |-> FALSE, v |-> a - b]}
    ELSE {[panic |-> TRUE, v |-> 0],
          [panic |-> FALSE, v |-> a - b + U16MAX + 1]}

\* f.write_str(name)
WriteStr(name) == {[panic |-> FALSE, name |-> name, arg |-> 0]}

\* write!(f, "IRQ({})", k), k the outcome of a u16 subtraction
WriteIRQ(k) == [panic |-> k.panic, name |-> "IRQ", arg |-> k.v]

\* lines 282-298, <ExceptionNumber as Display>::fmt: what is written for the
\* vector number n
ExceptionNumberFmt(n) ==
    CASE n = 0 -> WriteStr("Thread")
      [] n = 1 -> WriteStr("Reset")
      [] n = 2 -> WriteStr("NMI")
      [] n = 3 -> WriteStr("HardFault")
      [] n = 4 -> WriteStr("MemManage")
      [] n = 5 -> WriteStr("BusFault")
      [] n = 6 -> WriteStr("UsageFault")
      [] n = 11 -> WriteStr("SVCall")
      [] n = 12 -> WriteStr("DebugMonitor")
      [] n = 14 -> WriteStr("PendSV")
      [] n = 15 -> WriteStr("SysTick")
      [] OTHER -> {WriteIRQ(k) : k \in SubU16(n, 16)}

\* report() is about to format the number of some exception trace
NamingInit ==
    /\ ExcevtInit
    /\ display \in {[state |-> "pending", n |-> n] : n \in 0..U16MAX}
    /\ pcsampl = [phase |-> "idle"]
    /\ portdemux = [phase |-> "idle"]

\* lines 255-273: `en` is formatted into the report line
Fmt ==
    /\ display.state = "pending"
    /\ \E w \in ExceptionNumberFmt(display.n) :
           display' = [state |-> "written", n |-> display.n, text |-> w]
    /\ UNCHANGED <<excevtVars, pcsampl, portdemux>>

NamingNext == Fmt

NamingSpec == NamingInit /\ [][NamingNext]_vars

\* ------------------------------------------------------------ fair runs

\* the process keeps running until run() returns or panics: a step that can
\* be taken is taken
FairSpec == Spec /\ WF_vars(Next)

\* --------------------------------------------------------------- pcsampl

MaxRoutines == 2
MaxSamples == 2

\* entry.value() & !1 of a function symbol: even
RoutineAddresses == {2, 4, 8}
RoutineSizes == {0, 2, 4}

\* struct Routine { address, name, size }
Routine(address, name, size) ==
    [address |-> address, name |-> name, size |-> size]

\* lines 56-79: the function symbols in symbol-table order; a symbol is
\* named after its position in the table
SymbolTables ==
    UNION {{[i \in 1..k |-> Routine(f[i][1], i, f[i][2])] :
                f \in [1..k -> RoutineAddresses \X RoutineSizes]} :
           k \in 0..MaxRoutines}

\* sample.pc(): None for a sleep sample
NoPc == [some |-> FALSE, pc |-> 0]
SomePc(v) == [some |-> TRUE, pc |-> v]

SamplePcs == {NoPc} \cup {SomePc(v) : v \in 0..13}

\* lines 44-51: the PeriodicPcSample packets of the trace, in order
SampleVectors ==
    UNION {[1..k -> SamplePcs] : k \in 0..MaxSamples}

\* lines 147-151, Ord for Routine: the address alone decides
RoutineLe(a, b) == a.address <= b.address

RECURSIVE Insert(_, _)
\* r goes behind every routine that is not greater: the sort is stable
Insert(rs, r) ==
    IF rs = <<>> THEN <<r>>
    ELSE IF RoutineLe(rs[Len(rs)], r) THEN Append(rs, r)
    ELSE Append(Insert(SubSeq(rs, 1, Len(rs) - 1), r), rs[Len(rs)])

RECURSIVE Sort(_)
\* line 81: routines.sort()
Sort(rs) ==
    IF rs = <<>> THEN <<>>
    ELSE Insert(Sort(SubSeq(rs, 1, Len(rs) - 1)), rs[Len(rs)])

\* line 103, routines.binary_search(&needle) on the sorted vector, indices
\* from 0: Ok(i) for an i with routines[i] == needle, any of them when
\* several compare equal, else Err(e), e the insertion point
BinarySearch(rs, needle) ==
    LET eq == {i \in 1..Len(rs) : rs[i].address = needle.address}
        lt == {i \in 1..Len(rs) : rs[i].address < needle.address}
    IN IF eq # {}
       THEN {[ok |-> TRUE, i |-> i - 1] : i \in eq}
       ELSE {[ok |-> FALSE, i |-> Cardinality(lt)]}

\* line 103, .unwrap_or_else(|e| e - 1): e - 1 on a usize 0 panics with
\* overflow checks and wraps to usize::MAX without, and then line 105
\* panics on the index
Pos(b) ==
    IF b.ok THEN [panic |-> FALSE, pos |-> b.i]
    ELSE IF b.i = 0 THEN [panic |-> TRUE, pos |-> 0]
    ELSE [panic |-> FALSE, pos |-> b.i - 1]

\* line 113: *stats.entry(name).or_insert(0) += 1
Bump(stats, name) ==
    IF name \in DOMAIN stats
    THEN [stats EXCEPT ![name] = @ + 1]
    ELSE [n \in DOMAIN stats \cup {name} |->
              IF n = name THEN 1 ELSE stats[n]]

\* the samples are collected and the symbol table is read; min_pc, total,
\* sleep and stats get their values at lines 84-92; i is the position of
\* the loop of line 93 and hit what it did with the last sample
PcsamplInit ==
    /\ ExcevtInit
    /\ display = [state |-> "idle"]
    /\ portdemux = [phase |-> "idle"]
    /\ \E rs \in SymbolTables, ss \in SampleVectors :
           pcsampl = [phase |-> "collected", routines |-> rs, samples |-> ss,
                      min_pc |-> 0, total |-> 0, sleep |-> 0,
                      stats |-> [n \in {} |-> 0], i |-> 1,
                      hit |-> [kind |-> "none", pc |-> 0, pos |-> 0]]

\* lines 81-92; routines[0] panics when the table has no function symbol
SortRoutines ==
    /\ pcsampl.phase = "collected"
    /\ pcsampl' =
           IF pcsampl.routines = <<>>
           THEN [pcsampl EXCEPT !.phase = "panic_empty"]
           ELSE [pcsampl EXCEPT !.phase = "mapping",
                                !.routines = Sort(pcsampl.routines),
                                !.min_pc = Sort(pcsampl.routines)[1].address,
                                !.total = Len(pcsampl.samples),
                                !.sleep = 0]
    /\ UNCHANGED <<excevtVars, display, portdemux>>

\* the loop of line 93 is at sample s
AtSample(s) ==
    /\ pcsampl.phase = "mapping"
    /\ pcsampl.i <= Len(pcsampl.samples)
    /\ s = pcsampl.samples[pcsampl.i]

\* lines 114-116: a sample without a PC
SleepSample ==
    \E s \in SamplePcs :
        /\ AtSample(s)
        /\ ~s.some
        /\ pcsampl' = [pcsampl EXCEPT
               !.sleep = @ + 1,
               !.i = @ + 1,
               !.hit = [kind |-> "sleep", pc |-> 0, pos |-> 0]]
        /\ UNCHANGED <<excevtVars, display, portdemux>>

\* lines 95-100: a PC below the first routine
BogusLowSample ==
    \E s \in SamplePcs :
        /\ AtSample(s)
        /\ s.some
        /\ s.pc < pcsampl.min_pc
        /\ pcsampl' = [pcsampl EXCEPT
               !.total = @ - 1,
               !.i = @ + 1,
               !.hit = [kind |-> "bogus", pc |-> s.pc, pos |-> 0]]
        /\ UNCHANGED <<excevtVars, display, portdemux>>

\* lines 102-113: a PC at or above the first routine is looked up; it is
\* bogus when it lies beyond the routine found, else it counts for it
PcSample ==
    \E s \in SamplePcs :
        /\ AtSample(s)
        /\ s.some
        /\ s.pc >= pcsampl.min_pc
        /\ \E b \in BinarySearch(pcsampl.routines, Routine(s.pc, 0, 0)) :
               LET p == Pos(b)
                   hit == pcsampl.routines[p.pos + 1]
               IN pcsampl' =
                      IF p.panic
                      THEN [pcsampl EXCEPT !.phase = "panic_lookup"]
                      ELSE IF s.pc > hit.address + hit.size
                      THEN [pcsampl EXCEPT
                               !.total = @ - 1,
                               !.i = @ + 1,
                               !.hit = [kind |-> "bogus", pc |-> s.pc,
                                        pos |-> p.pos]]
                      ELSE [pcsampl EXCEPT
                               !.stats = Bump(@, hit.name),
                               !.i = @ + 1,
                               !.hit = [kind |-> "counted", pc |-> s.pc,
                                        pos |-> p.pos]]
        /\ UNCHANGED <<excevtVars, display, portdemux>>

\* lines 119-136: the loop is over, the statistics are printed
ReportStats ==
    /\ pcsampl.phase = "mapping"
    /\ pcsampl.i > Len(pcsampl.samples)
    /\ pcsampl' = [pcsampl EXCEPT !.phase = "reported"]
    /\ UNCHANGED <<excevtVars, display, portdemux>>

PcsamplNext ==
    \/ SortRoutines
    \/ SleepSample
    \/ BogusLowSample
    \/ PcSample
    \/ ReportStats

PcsamplSpec == PcsamplInit /\ [][PcsamplNext]_vars

\* ------------------------------------------------------------ port-demux

MaxPackets == 4

\* ip.port() and ip.payload() of the instrumentation packets of the stream
Ports == {0, 1}
Payloads == {<<1>>, <<2, 3>>}

\* Packet::Instrumentation(ip)
InstrumentationPacket(port, payload) ==
    [kind |-> "Instrumentation", port |-> port, payload |-> payload]

\* line 45: what stream.next() may return, end-of-stream alone once
\* MaxPackets items were delivered
DemuxItems ==
    IF portdemux.n < MaxPackets
    THEN {StreamErr, StreamEnd, StreamOk(Overflow)}
             \cup {StreamOk(InstrumentationPacket(port, payload)) :
                       port \in Ports, payload \in Payloads}
    ELSE {StreamEnd}

\* lines 44-45: no sink yet; files[P] is the content of P.stim and
\* creates[P] the number of File::create calls for it
PortDemuxInit ==
    /\ ExcevtInit
    /\ display = [state |-> "idle"]
    /\ pcsampl = [phase |-> "idle"]
    /\ portdemux = [phase |-> "running",
                    sinks |-> {},
                    files |-> [P \in Ports |-> <<>>],
                    creates |-> [P \in Ports |-> 0],
                    n |-> 0,
                    item |-> StreamEnd]

\* one stream.next() that returned item
DemuxPull(d, item) == [d EXCEPT !.n = @ + 1, !.item = item]

\* GetOrCreate with a fault: no lookup in sinks, the file is created anew
\* for every packet
AlwaysCreate(d, port) ==
    [d EXCEPT !.sinks = @ \cup {port},
              !.files[port] = <<>>,
              !.creates[port] = @ + 1]

\* lines 51-57: the sink of the port, created (and the file truncated) when
\* sinks has none
GetOrCreate(d, port) ==
    IF port \in d.sinks
    THEN d
    ELSE [d EXCEPT !.sinks = @ \cup {port},
                   !.files[port] = <<>>,
                   !.creates[port] = @ + 1]

\* line 59: sink.write_all(payload)
WriteAll(d, port, payload) ==
    [d EXCEPT !.files[port] = @ \o payload]

\* lines 47-60
DemuxInstrumentation ==
    \E port \in Ports, payload \in Payloads :
        LET item == StreamOk(InstrumentationPacket(port, payload))
        IN /\ portdemux.phase = "running"
           /\ item \in DemuxItems
           /\ portdemux' =
                  WriteAll(GetOrCreate(DemuxPull(portdemux, item), port),
                           port, payload)
           /\ UNCHANGED <<excevtVars, display, pcsampl>>

\* line 61: any other packet
DemuxOther ==
    /\ portdemux.phase = "running"
    /\ StreamOk(Overflow) \in DemuxItems
    /\ portdemux' = DemuxPull(portdemux, StreamOk(Overflow))
    /\ UNCHANGED <<excevtVars, display, pcsampl>>

\* line 62: a decode error is printed to stderr
DemuxDecodeError ==
    /\ portdemux.phase = "running"
    /\ StreamErr \in DemuxItems
    /\ portdemux' = DemuxPull(portdemux, StreamErr)
    /\ UNCHANGED <<excevtVars, display, pcsampl>>

\* lines 45, 65: end of stream, run() returns
DemuxEndOfStream ==
    /\ portdemux.phase = "running"
    /\ portdemux' = [DemuxPull(portdemux, StreamEnd) EXCEPT !.phase = "done"]
    /\ UNCHANGED <<excevtVars, display, pcsampl>>

PortDemuxNext ==
    \/ DemuxInstrumentation
    \/ DemuxOther
    \/ DemuxDecodeError
    \/ DemuxEndOfStream

PortDemuxSpec == PortDemuxInit /\ [][PortDemuxNext]_vars

\* ------------------------------------------------------- shared vocabulary

\* now holds a counter value, not one of the two sentinels
IsCounter(n) == n # INSTANT_DISABLED /\ n # INSTANT_UNKNOWN

\* the positions in out of the lines the last step printed
NewLines == (last.nout + 1)..Len(out)

\* the mathematical (n + d) mod 1_000_000_000
PlusModMAX(n, d) == RemMAX(WideSum(n, d))

\* exception traces pulled from the source and not yet reported
Buffered ==
    (IF et # 0 THEN 1 ELSE 0) + (IF et2 # 0 THEN 1 ELSE 0)
        + (IF next # <<>> /\ next[1].kind = "ExceptionTrace" THEN 1 ELSE 0)

\* ------------------------------------------------------------------ claims

\* C1: loss never fabricates confidence.  Once now was forced to
\* INSTANT_UNKNOWN, and whenever now is INSTANT_UNKNOWN when a step starts,
\* the lines that step prints are not classified Known, until a Reset line
\* has been printed.
C1_LossNeverFabricatesConfidence ==
    [][(lost \/ now = INSTANT_UNKNOWN) =>
          \A i \in (Len(out) + 1)..Len(out') : out'[i].instant.tag # "Known"]_vars

\* C2: disabled mode is pass-through.  In a run started without -t, as long
\* as no LocalTimestamp was handled at top level, no lookahead is pending and
\* every exception trace pulled so far has its Unknown line already.
C2_DisabledPassThrough ==
    (~timestamp /\ ~anyStandalone) =>
        /\ pc \notin {"p2", "p3"}
        /\ Len(out) = traces
        /\ \A i \in 1..Len(out) : out[i] = Report(i, Unknown)

\* C3: a step that starts with now = INSTANT_DISABLED leaves it so, unless
\* the step handles a LocalTimestamp at top level, which makes it
\* INSTANT_UNKNOWN.
C3_DisabledStaysDisabled ==
    last.now = INSTANT_DISABLED =>
        IF last.op = "timestamp"
        THEN now = INSTANT_UNKNOWN
        ELSE now = INSTANT_DISABLED

\* C4: double-trace pairing.  When two buffered traces A, B meet a
\* LocalTimestamp(d, p) while now = N is a counter value, exactly two lines
\* are printed, A then B, both Known with now = (N + d) mod MAX, A imprecise
\* and B with precision p; now becomes (N + d) mod MAX, the loop continues
\* and nothing is requeued.
C4_DoubleTracePairing ==
    (last.op = "p3_timestamp" /\ IsCounter(last.now)) =>
        LET n == PlusModMAX(last.now, last.item.p.delta)
        IN  /\ pc = "main"
            /\ next = <<>>
            /\ now = n
            /\ Len(out) = last.nout + 2
            /\ out[Len(out) - 1] = Report(traces - 1, Known(n, FALSE))
            /\ out[Len(out)] = Report(traces, Known(n, last.item.p.precise))

C6_EndOfStreamFlush ==
    /\ last.op = "p2_eof" =>
           /\ pc = "eof"
           /\ Len(out) = last.nout + 1
           /\ out[Len(out)] = Report(traces, Unknown)
           /\ Len(out) = traces
    /\ last.op = "p3_eof" =>
           /\ pc = "eof"
           /\ Len(out) = last.nout + 2
           /\ out[Len(out) - 1] = Report(traces - 1, Unknown)
           /\ out[Len(out)] = Report(traces, Unknown)
           /\ Len(out) = traces

\* the stream ended with two traces buffered, after earlier lines
C6_Witness ==
    /\ last.op = "p3_eof"
    /\ pc = "eof"
    /\ last.nout > 0
    /\ Len(out) = last.nout + 2

\* C7: ordering and exactly-once reporting.  The i-th line printed is the
\* line of the i-th exception trace pulled; the traces without a line yet
\* are exactly the buffered ones; when the run ends by end-of-stream or by
\* an unexpected packet every trace pulled has its line.
C7_OrderedExactlyOnce ==
    /\ \A i \in 1..Len(out) : out[i].id = i
    /\ Len(out) <= traces
    /\ pc \in {"main", "p2", "p3"} => Len(out) + Buffered = traces
    /\ pc \in {"eof", "fatal"} => Len(out) = traces

\* a finished run in which two traces were flushed, a third one was requeued
\* and then resolved by a timestamp
C7_Witness ==
    /\ pc \in {"eof", "fatal"}
    /\ traces = 3
    /\ Len(out) = 3
    /\ out[1].instant = Unknown
    /\ out[2].instant = Unknown
    /\ out[3].instant = Reset

\* C8: monotonic reconstruction.  In a run without loss, every Known line
\* carries (stored counter + consumed delta) mod MAX, and the only other
\* change of a stored counter is + 2_000_000 at a standalone timestamp whose
\* delta is 1_999_999.
C8_MonotonicReconstruction ==
    ~anyLoss =>
        /\ \A i \in NewLines :
               out[i].instant.tag = "Known" =>
                   /\ IsCounter(last.now)
                   /\ out[i].instant.now =
                          PlusModMAX(last.now, last.item.p.delta)
                   /\ now = out[i].instant.now
        /\ (IsCounter(last.now) /\ now # last.now /\ NewLines = {}) =>
               /\ last.op = "timestamp"
               /\ last.item.p.delta = U32Val(0, WrapDelta)
               /\ pc = "main"
               /\ now = WideSum(last.now, U32Val(0, WrapJump))

\* C9: standalone timestamp transitions.  A LocalTimestamp handled at top
\* level prints nothing; Disabled becomes Unknown; a counter becomes
\* counter + 2_000_000 when the delta is 1_999_999 and Unknown otherwise;
\* Unknown stays Unknown.
C9_StandaloneTimestamp ==
    last.op = "timestamp" =>
        /\ Len(out) = last.nout
        /\ last.now = INSTANT_DISABLED => now = INSTANT_UNKNOWN
        /\ last.now = INSTANT_UNKNOWN => now = INSTANT_UNKNOWN
        /\ (IsCounter(last.now) /\ last.item.p.delta = U32Val(0, WrapDelta)) =>
               /\ pc = "main"
               /\ now = WideSum(last.now, U32Val(0, WrapJump))
               /\ IsCounter(now)
        /\ (IsCounter(last.now) /\ last.item.p.delta # U32Val(0, WrapDelta)) =>
               now = INSTANT_UNKNOWN

\* C10: recoverable loss never ends the run.  After a decode error (at top
\* level, as p2 or as p3) and after an Overflow packet (at top level, or
\* requeued from a lookahead) the loop is back at its top, the traces that
\* were buffered have their Unknown lines, and now is INSTANT_UNKNOWN unless
\* it was INSTANT_DISABLED.
C10_RecoverableLoss ==
    /\ last.op \in {"top_err", "overflow", "p2_err", "p3_err"} =>
           /\ pc = "main"
           /\ last.now # INSTANT_DISABLED => now = INSTANT_UNKNOWN
    /\ last.op \in {"top_err", "overflow"} => Len(out) = last.nout
    /\ (last.op = "p2_err"
          \/ (last.op = "p2_unexpected" /\ last.item.p = Overflow)) =>
           /\ Len(out) = last.nout + 1
           /\ out[Len(out)] = Report(traces, Unknown)
    /\ (last.op = "p3_err"
          \/ (last.op = "p3_unexpected" /\ last.item.p = Overflow)) =>
           /\ Len(out) = last.nout + 2
           /\ out[Len(out) - 1] = Report(traces - 1, Unknown)
           /\ out[Len(out)] = Report(traces, Unknown)
    /\ (last.op \in {"p2_unexpected", "p3_unexpected"}
          /\ last.item.p = Overflow) =>
           /\ pc = "main"
           /\ next = <<Overflow>>
           /\ now = INSTANT_UNKNOWN

\* a decode error arrived as p3 while the counter was known
C10_Witness ==
    /\ last.op = "p3_err"
    /\ IsCounter(last.now)
    /\ now = INSTANT_UNKNOWN
    /\ pc = "main"
    /\ Len(out) = last.nout + 2


\* C11: fatal protocol violation.  A packet that is not Overflow,
\* ExceptionTrace or LocalTimestamp, handled at top level (pulled or taken
\* from the requeue slot), ends the run without a panic: the step prints
\* nothing and keeps every line printed before, among them the Unknown
\* line(s) of the traces that were buffered when the packet was requeued;
\* once the run has ended nothing is pulled or printed any more.
C11_FatalProtocolViolation ==
    [][/\ pc # "fatal"
       /\ last'.op = "unexpected" =>
              /\ pc' = "fatal"
              /\ out' = out
              /\ next' = <<>>
              /\ pulled' = pulled + (IF next = <<>> THEN 1 ELSE 0)
              /\ Len(out) = traces
              /\ next # <<>> =>
                     /\ Len(out) >= 1
                     /\ out[Len(out)] = Report(traces, Unknown)]_vars

\* the run ended on a packet that had been requeued behind two buffered
\* traces, after an earlier line
C11_Witness ==
    /\ pc = "fatal"
    /\ last.op = "unexpected"
    /\ last.next = <<Instrumentation>>
    /\ Len(out) >= 3
    /\ out[Len(out) - 1].instant = Unknown
    /\ out[Len(out)].instant = Unknown


\* C12: counter domain invariant.  Whenever now holds a counter value (not a
\* sentinel) it is below MAX = 1_000_000_000.
C12_CounterDomain ==
    IsCounter(now) => now[1] = 0


\* the steps in which the code assigns INSTANT_UNKNOWN to a known counter
\* (lines 91, 106, 183, 218, 232)
ExplicitlyUnknown ==
    \/ last.op \in {"top_err", "overflow", "p2_unexpected", "p2_err",
                    "p3_unexpected", "p3_err"}
    \/ last.op = "timestamp" /\ last.item.p.delta # U32Val(0, WrapDelta)

\* C13: sentinel distinctness.  A step that starts with a counter value in
\* now leaves a counter value there, unless it is one of the steps that
\* assign INSTANT_UNKNOWN; counter arithmetic never produces
\* INSTANT_UNKNOWN or INSTANT_DISABLED.
C13_SentinelDistinctness ==
    (IsCounter(last.now) /\ ~IsCounter(now)) =>
        (now = INSTANT_UNKNOWN /\ ExplicitlyUnknown)


\* the names of the table of system exceptions
TableName(n) ==
    CASE n = 0 -> "Thread"
      [] n = 1 -> "Reset"
      [] n = 2 -> "NMI"
      [] n = 3 -> "HardFault"
      [] n = 4 -> "MemManage"
      [] n = 5 -> "BusFault"
      [] n = 6 -> "UsageFault"
      [] n = 11 -> "SVCall"
      [] n = 12 -> "DebugMonitor"
      [] n = 14 -> "PendSV"
      [] n = 15 -> "SysTick"
      [] OTHER -> "reserved"

\* C14: exception naming.  For every vector number n in 0..65535 the text
\* written is the table name when n < 16 (for the reserved numbers 7-10 and
\* 13: a name, not an IRQ number) and IRQ(n - 16) when n >= 16, and the
\* subtraction n - 16 is never evaluated for n < 16, so it never overflows.
C14_ExceptionNaming ==
    display.state = "written" =>
        /\ ~display.text.panic
        /\ display.n < 16 =>
               /\ display.text.name # "IRQ"
               /\ TableName(display.n) # "reserved" =>
                      display.text.name = TableName(display.n)
        /\ display.n >= 16 =>
               /\ display.text.name = "IRQ"
               /\ display.text.arg = display.n - 16


\* C15: pushback buffer.  A lookahead packet that decoded and is not of the
\* expected kind is stored in next, the buffered traces are reported Unknown
\* in arrival order and now is forced to INSTANT_UNKNOWN; the stored packet
\* is what the next step handles at top level, without a pull; the slot is
\* empty at every lookahead pull and whenever it is written.
C15_PushbackBuffer ==
    [][/\ pc \in {"p2", "p3"} => next = <<>>
       /\ next' # <<>> =>
              /\ next = <<>>
              /\ last'.op \in {"p2_unexpected", "p3_unexpected"}
       /\ last'.op \in {"p2_unexpected", "p3_unexpected"} =>
              /\ pulled' = pulled + 1
              /\ last'.item.res = "Ok"
              /\ next' = <<last'.item.p>>
              /\ now' = INSTANT_UNKNOWN
              /\ pc' = "main"
              /\ out' = out \o
                     (IF pc = "p2"
                      THEN <<Report(et, Unknown)>>
                      ELSE <<Report(et, Unknown), Report(et2, Unknown)>>)
              /\ et' = 0 /\ et2' = 0
       /\ next # <<>> =>
              /\ pc = "main"
              /\ pulled' = pulled
              /\ next' = <<>>
              /\ last'.item = StreamOk(next[1])]_vars

\* two traces and an Overflow packet were pulled; the Overflow packet was
\* requeued and has just been handled at top level
C15_Witness ==
    /\ last.op = "overflow"
    /\ last.next = <<Overflow>>
    /\ next = <<>>
    /\ pulled = 3
    /\ traces = 2
    /\ Len(out) = 2

\* C16: reported instants fit the fixed column.  Every line classified
\* Known carries a now below 1_000_000_000, so its now field is exactly
\* nine characters wide.
C16_KnownFitsColumn ==
    \A i \in 1..Len(out) :
        out[i].instant.tag = "Known" =>
            /\ out[i].instant.now[1] = 0
            /\ out[i].instant.now[2] < MAX
            /\ NowFieldWidth(out[i].instant.now) = 9

\* a double-trace sum that had to be reduced: 999_999_999 + 999_999_999
C16_Witness ==
    /\ last.op = "p3_timestamp"
    /\ last.now = U32Val(0, MAX - 1)
    /\ last.item.p.delta = U32Val(0, MAX - 1)
    /\ Len(out) >= 2
    /\ out[Len(out)].instant.tag = "Known"
    /\ out[Len(out)].instant.now = U32Val(0, MAX - 2)

\* C17: no 32-bit overflow.  Every addition now + delta of the lookahead
\* arms and every addition now + 2_000_000 of the standalone arm starts
\* from a counter value, not from a sentinel, and its sum fits a u32.
C17_NoOverflow ==
    /\ (\/ last.op = "p3_timestamp"
        \/ last.op = "p2_timestamp" /\ last.now # INSTANT_UNKNOWN) =>
           /\ IsCounter(last.now)
           /\ FitsU32(WideSum(last.now, last.item.p.delta))
    /\ (/\ last.op = "timestamp"
        /\ last.now # INSTANT_DISABLED
        /\ last.item.p.delta = U32Val(0, WrapDelta)) =>
           /\ IsCounter(last.now)
           /\ FitsU32(WideSum(last.now, U32Val(0, WrapJump)))

\* C18: termination.  Every step of the loop at top level pulls an item
\* from the source or empties the pushback slot; the slot is only written
\* with a packet pulled in that very step; and every run over a finite
\* source ends: run() returns or the process panics.
C18_Termination ==
    /\ [][/\ pc = "main" =>
                 \/ pulled' = pulled + 1 /\ next = <<>>
                 \/ pulled' = pulled /\ next # <<>> /\ next' = <<>>
          /\ next' # <<>> =>
                 /\ pulled' = pulled + 1
                 /\ last'.next = <<>>
                 /\ next' = <<last'.item.p>>
          /\ pulled' >= pulled
          /\ pulled' <= MaxPulls + 1]_vars
    /\ <>(pc \in {"eof", "fatal", "panic"})

\* the run pulled the whole source, requeued a packet on the way, and ended
\* at end of stream
C18_Witness ==
    /\ pc = "eof"
    /\ pulled = MaxPulls + 1
    /\ last.op = "top_eof"
    /\ anyLoss
    /\ Len(out) >= 2
    /\ out[Len(out)].instant = Unknown


RECURSIVE SumOf(_, _)
\* the sum of the counts of stats over the names of S
SumOf(stats, S) ==
    IF S = {} THEN 0
    ELSE LET n == CHOOSE x \in S : TRUE
         IN stats[n] + SumOf(stats, S \ {n})

\* pc lies in the extent of routine r, [r.address, r.address + r.size)
InExtent(v, r) == r.address <= v /\ v < r.address + r.size

\* r has the greatest start address not above pc among the routines rs
GreatestBelow(v, r, rs) ==
    /\ r.address <= v
    /\ \A j \in 1..Len(rs) : rs[j].address <= v => rs[j].address <= r.address

\* C19: pcsampl sample attribution.  With the routines sorted, the lookup
\* of a PC at or above the lowest routine address never panics; a PC is
\* counted for routine R only if R has the greatest start address not
\* above it and the PC lies inside [R.address, R.address + R.size); every
\* other PC sample is bogus and taken off the total, so that the sleep
\* count plus the routine counts plus the samples still to map is the total.
C19_SampleAttribution ==
    /\ pcsampl.phase # "panic_lookup"
    /\ pcsampl.phase \in {"mapping", "reported"} =>
           /\ pcsampl.hit.kind = "counted" =>
                  LET R == pcsampl.routines[pcsampl.hit.pos + 1]
                  IN /\ GreatestBelow(pcsampl.hit.pc, R, pcsampl.routines)
                     /\ InExtent(pcsampl.hit.pc, R)
           /\ pcsampl.sleep + SumOf(pcsampl.stats, DOMAIN pcsampl.stats)
                  + (Len(pcsampl.samples) + 1 - pcsampl.i) = pcsampl.total


\* the bytes the item just pulled adds to the sink of port P
PayloadFor(item, P) ==
    IF item.res = "Ok" /\ item.p.kind = "Instrumentation" /\ item.p.port = P
    THEN item.p.payload
    ELSE <<>>

\* C20: port-demux routing.  Every item pulled appends its payload to the
\* file of its port when it is an Instrumentation packet and changes no
\* file otherwise; the file of a port is created by the first packet of
\* the port and never again; only end-of-stream stops the run.
C20_PortRouting ==
    [][portdemux' # portdemux =>
          LET item == portdemux'.item
          IN /\ \A P \in Ports :
                    /\ portdemux'.files[P] =
                           portdemux.files[P] \o PayloadFor(item, P)
                    /\ portdemux'.creates[P] = portdemux.creates[P] +
                           (IF PayloadFor(item, P) # <<>>
                                  /\ portdemux.creates[P] = 0
                            THEN 1 ELSE 0)
                    /\ portdemux'.creates[P] <= 1
             /\ portdemux'.phase =
                    (IF item.res = "None" THEN "done" ELSE "running")]_vars

\* packets of both ports interleaved, then a decode error, and the run
\* goes on: port 0 got <<1>> and <<2, 3>>, port 1 got <<2, 3>>
C20_Witness ==
    /\ portdemux.phase = "running"
    /\ portdemux.item = StreamErr
    /\ portdemux.n = 4
    /\ portdemux.files[0] = <<1, 2, 3>>
    /\ portdemux.files[1] = <<2, 3>>
    /\ portdemux.creates[0] = 1
    /\ portdemux.creates[1] = 1

====
